---- MODULE Spec2Model ----
(***************************************************************************)
(* Model of src/main.py: the question cache (pregunta_cache), the          *)
(* validator (es_pregunta_valida), the generator (generar_pregunta), the   *)
(* background preloading thread (precargar_preguntas), the retrieval       *)
(* coroutine (obtener_pregunta_cache_async) and the quiz routes            *)
(* (inicio, quiz_get, quiz_post).                                          *)
(*                                                                         *)
(* Python values are tagged records: None, str (a sequence of character    *)
(* tokens), list (a sequence of values), number and dict (a TLA+ record    *)
(* whose DOMAIN is the dict's key set).                                    *)
(***************************************************************************)
EXTENDS Naturals, Sequences, FiniteSets, Bags, TLC

\* ------------------------------------------------------------------------
\* Program constants
\* ------------------------------------------------------------------------
CACHE_SIZE == 200
CACHE_MIN == 100
SLEEP_OK == 5
SLEEP_QUOTA == 35
SLEEP_ERROR == 5
SLEEP_IDLE == 2
GET_TIMEOUT == 10
MAX_INTENTOS == 10
RETRY_PAUSE == 2
MAX_PREGUNTAS == 10

\* ------------------------------------------------------------------------
\* Bounds of the model
\* ------------------------------------------------------------------------
\* records the preloading thread may still receive as valid ones
MaxNew == 2
\* processes that call obtener_pregunta_cache_async directly (SpecCache)
NumConsumers == 2
\* calls of obtener_pregunta_cache_async that these processes make in all
MaxCalls == 3
\* requests that the clients of SpecQuiz send in all
MaxReqs == 3

\* ------------------------------------------------------------------------
\* Python values
\* ------------------------------------------------------------------------
None == [t |-> "none"]
Str(s) == [t |-> "str", s |-> s]
List(l) == [t |-> "list", l |-> l]
Num(n) == [t |-> "num", n |-> n]
Dict(d) == [t |-> "dict", d |-> d]

\* Python truth value of an object (the `not pregunta[campo]` test)
Truthy(v) ==
    CASE v.t = "none" -> FALSE
      [] v.t = "str" -> v.s # <<>>
      [] v.t = "list" -> v.l # <<>>
      [] v.t = "num" -> v.n # 0
      [] v.t = "dict" -> DOMAIN v.d # {}
      [] OTHER -> TRUE

\* str.strip(): drops the whitespace tokens at both ends
RECURSIVE LStrip(_)
LStrip(s) == IF s # <<>> /\ Head(s) = " " THEN LStrip(Tail(s)) ELSE s

RECURSIVE RStrip(_)
RStrip(s) ==
    IF s # <<>> /\ s[Len(s)] = " " THEN RStrip(SubSeq(s, 1, Len(s) - 1)) ELSE s

Strip(s) == LStrip(RStrip(s))

\* str.split(","): the pieces between the comma tokens (always at least one)
RECURSIVE SplitFrom(_, _, _)
SplitFrom(s, i, cur) ==
    IF i > Len(s) THEN <<cur>>
    ELSE IF s[i] = "," THEN <<cur>> \o SplitFrom(s, i + 1, <<>>)
    ELSE SplitFrom(s, i + 1, Append(cur, s[i]))

SplitComma(s) == SplitFrom(s, 1, <<>>)

\* ------------------------------------------------------------------------
\* es_pregunta_valida
\* ------------------------------------------------------------------------
campos == {"pregunta", "codigo", "respuestas", "respuesta_correcta"}

\* a validator that also asks for the explanation
es_pregunta_con_explicacion(pregunta) ==
    IF pregunta.t # "dict" THEN FALSE
    ELSE IF "error" \in DOMAIN pregunta.d THEN FALSE
    ELSE IF \E campo \in campos \cup {"explicacion"} :
                campo \notin DOMAIN pregunta.d \/ ~Truthy(pregunta.d[campo])
         THEN FALSE
    ELSE IF pregunta.d.respuestas.t # "list" \/ Len(pregunta.d.respuestas.l) # 4
         THEN FALSE
    ELSE TRUE

es_pregunta_valida(pregunta) ==
    IF pregunta.t # "dict" THEN FALSE
    ELSE IF "error" \in DOMAIN pregunta.d THEN FALSE
    ELSE IF \E campo \in campos :
                campo \notin DOMAIN pregunta.d \/ ~Truthy(pregunta.d[campo])
         THEN FALSE
    ELSE IF pregunta.d.respuestas.t # "list" \/ Len(pregunta.d.respuestas.l) # 4
         THEN FALSE
    ELSE TRUE

\* ------------------------------------------------------------------------
\* generar_pregunta
\* ------------------------------------------------------------------------
\* The text of a completion is a sequence of tokens: a fence "```json", a
\* fence "```", a JSON document (with the value it decodes to) or other text.
FenceJson == [k |-> "fence_json"]
Fence == [k |-> "fence"]
Doc(v) == [k |-> "doc", v |-> v]
Junk == [k |-> "junk"]

\* text.startswith("```json") / text[7:]
StripFenceJson(toks) ==
    IF toks # <<>> /\ Head(toks) = FenceJson THEN Tail(toks) ELSE toks

\* text.startswith("```") / text[3:]; "```json" also starts with "```" and
\* leaves the text "json..." behind
StripFenceStart(toks) ==
    IF toks # <<>> /\ Head(toks) = Fence THEN Tail(toks)
    ELSE IF toks # <<>> /\ Head(toks) = FenceJson THEN <<Junk>> \o Tail(toks)
    ELSE toks

\* text.endswith("```") / text[:-3]
StripFenceEnd(toks) ==
    IF toks # <<>> /\ toks[Len(toks)] = Fence
    THEN SubSeq(toks, 1, Len(toks) - 1) ELSE toks

CleanText(toks) == StripFenceEnd(StripFenceStart(StripFenceJson(toks)))

\* json.loads succeeds exactly on a text that is one JSON document
JsonLoads(toks) ==
    IF Len(toks) = 1 /\ toks[1].k = "doc"
    THEN [ok |-> TRUE, v |-> toks[1].v] ELSE [ok |-> FALSE]

\* dict.get(key, default)
DictGet(d, key, default) == IF key \in DOMAIN d THEN d[key] ELSE default

\* a normalisation that splits the string and leaves the pieces as they are
NormalizarSinStrip(respuestas) ==
    IF respuestas.t = "str"
    THEN List([i \in 1..Len(SplitComma(respuestas.s)) |->
                   Str(SplitComma(respuestas.s)[i])])
    ELSE IF respuestas.t # "list" THEN List(<<>>)
    ELSE respuestas

\* the normalisation of "Respuestas"
NormalizarRespuestas(respuestas) ==
    IF respuestas.t = "str"
    THEN List([i \in 1..Len(SplitComma(respuestas.s)) |->
                   Str(Strip(SplitComma(respuestas.s)[i]))])
    ELSE IF respuestas.t # "list" THEN List(<<>>)
    ELSE respuestas

ErrorInvalida(text) ==
    Dict([error |-> Str(<<"Pregunta invalida o incompleta">>),
          detalle |-> Str(<<"Faltan campos o formato incorrecto">>),
          texto |-> text])

ErrorJson(text) ==
    Dict([error |-> Str(<<"No se pudo extraer el JSON">>),
          detalle |-> Str(<<"excepcion">>),
          texto |-> text])

\* the body of the try block, for a completion whose text was decoded to the
\* dict pregunta_json
ArmarPregunta(pregunta_json) ==
    Dict([pregunta |-> DictGet(pregunta_json, "Pregunta", None),
          codigo |-> DictGet(pregunta_json, "Codigo", None),
          respuestas |->
              NormalizarRespuestas(DictGet(pregunta_json, "Respuestas", None)),
          respuesta_correcta |-> DictGet(pregunta_json, "Respuesta correcta", None),
          explicacion |-> DictGet(pregunta_json, "Explicacion", Str(<<>>))])

\* An outcome of client.models.generate_content is a raised exception with a
\* message, or a response whose text is None or a token sequence.
ApiRaise(msg) == [raise |-> TRUE, msg |-> msg]
ApiText(toks) == [raise |-> FALSE, text |-> [t |-> "text", toks |-> toks]]
ApiNoText == [raise |-> FALSE, text |-> None]

\* generar_pregunta without its validation step
generar_sin_validar(api) ==
    IF api.raise THEN [raised |-> TRUE, msg |-> api.msg]
    ELSE IF api.text.t = "none"
         THEN [raised |-> FALSE, val |-> ErrorJson(api.text)]
    ELSE LET text == CleanText(api.text.toks)
             loaded == JsonLoads(text)
         IN  IF ~loaded.ok \/ loaded.v.t # "dict"
             THEN [raised |-> FALSE, val |-> ErrorJson(api.text)]
             ELSE [raised |-> FALSE, val |-> ArmarPregunta(loaded.v.d)]

\* generar_pregunta: raises the exception of the API call, otherwise returns
\* the question or an error dict
generar_pregunta(api) ==
    IF api.raise THEN [raised |-> TRUE, msg |-> api.msg]
    ELSE IF api.text.t = "none"
         THEN [raised |-> FALSE, val |-> ErrorJson(api.text)]
    ELSE LET text == CleanText(api.text.toks)
             loaded == JsonLoads(text)
         IN  IF ~loaded.ok \/ loaded.v.t # "dict"
             THEN [raised |-> FALSE, val |-> ErrorJson(api.text)]
             ELSE IF ~es_pregunta_valida(ArmarPregunta(loaded.v.d))
                  THEN [raised |-> FALSE,
                        val |-> ErrorInvalida([t |-> "text", toks |-> text])]
                  ELSE [raised |-> FALSE, val |-> ArmarPregunta(loaded.v.d)]

\* ------------------------------------------------------------------------
\* Inputs: what the external generation service may answer
\* ------------------------------------------------------------------------
JsonObj(p, c, r, rc, e) ==
    ("Pregunta" :> p) @@ ("Codigo" :> c) @@ ("Respuestas" :> r) @@
    ("Respuesta correcta" :> rc) @@ ("Explicacion" :> e)

Opciones == List(<<Str(<<"1">>), Str(<<"2">>), Str(<<"3">>), Str(<<"4">>)>>)

\* the fenced completion of the prompt's output format
TextFenced ==
    <<FenceJson,
      Doc(Dict(JsonObj(Str(<<"Q">>), Str(<<"c">>), Opciones, Str(<<"2">>),
                       Str(<<"e">>)))),
      Fence>>

\* an unfenced completion whose options arrive as one comma-joined string
TextComma ==
    <<Doc(Dict(JsonObj(Str(<<"P">>), Str(<<"c">>),
                       Str(<<"1", ",", " ", "2", ",", "3", ",", "4">>),
                       Str(<<" ", "3">>), Str(<<>>))))>>

\* a completion that is not JSON
TextNoJson == <<Junk>>

\* a JSON completion without its "Codigo"
TextIncompleta ==
    <<Doc(Dict(("Pregunta" :> Str(<<"Q">>)) @@ ("Respuestas" :> Opciones) @@
               ("Respuesta correcta" :> Str(<<"2">>))))>>

MsgQuota == <<"429", " ", "RESOURCE_EXHAUSTED">>
MsgOtro == <<"503", " ", "UNAVAILABLE">>

ApiOutcomes ==
    {ApiRaise(MsgQuota), ApiRaise(MsgOtro), ApiText(TextFenced),
     ApiText(TextComma), ApiText(TextNoJson), ApiText(TextIncompleta)}

\* the outcomes that make generar_pregunta return a valid question
ApiValidas ==
    {a \in ApiOutcomes :
        ~generar_pregunta(a).raised /\ es_pregunta_valida(generar_pregunta(a).val)}

\* "RESOURCE_EXHAUSTED" in str(e)
EsCuota(msg) == \E i \in 1..Len(msg) : msg[i] = "RESOURCE_EXHAUSTED"

\* ------------------------------------------------------------------------
\* queue.Queue(maxsize=CACHE_SIZE): every operation holds the queue's mutex
\* ------------------------------------------------------------------------
\* a queue made with room for fewer than CACHE_MIN entries
QueueFullChica(q) == Len(q) >= CACHE_MIN - 1
\* `put` waits while the queue holds maxsize entries
QueueFull(q) == Len(q) >= CACHE_SIZE
\* a put that makes room by dropping the oldest entry
QueuePutEvict(q, item) == IF q = <<>> THEN <<item>> ELSE Append(Tail(q), item)
QueuePut(q, item) == Append(q, item)
\* a get that leaves the entry in the queue
QueuePeek(q) == [item |-> Head(q), rest |-> q]
QueueGet(q) == [item |-> Head(q), rest |-> Tail(q)]

\* ------------------------------------------------------------------------
\* State
\* ------------------------------------------------------------------------
Procs == 1..NumConsumers

VARIABLES
    cache,      \* pregunta_cache: sequence of [id, rec], oldest first
    nextId,     \* identity of the next dict the preloading thread will hold
    made,       \* valid questions the preloading thread has received
    delivered,  \* bag of the identities that pregunta_cache.get has returned
    rpc,        \* precargar_preguntas: "check", "generate", "put" or "sleep"
    rpregunta,  \* precargar_preguntas: its local pregunta, as [id, rec]
    rsleep,     \* precargar_preguntas: argument of the time.sleep it is in
    riter,      \* this iteration: size observed, generator calls, insertions,
                \* outcome of the generator call and the message it raised
    opc,        \* obtener_pregunta_cache_async per process: "idle", "get",
                \* "ret" (returned) or "raised"
    ores,       \* the value it returned
    oinfo,      \* this call: generator calls, timed out, source, identity
    calls,      \* calls made by the processes of SpecCache
    jar,        \* the browser's quiz_session cookie, per client
    hpc,        \* route handler per client: "idle", "wait" (awaiting
                \* obtener_pregunta_cache_async) or "pause" (asyncio.sleep)
    hloc,       \* the handler's locals
    hresp,      \* the last response the client received
    reqs,       \* requests sent by the clients of SpecQuiz
    fn          \* SpecPuro: the function applied, its argument and its result

vars == <<cache, nextId, made, delivered, rpc, rpregunta, rsleep, riter,
          opc, ores, oinfo, calls, jar, hpc, hloc, hresp, reqs, fn>>

rvars == <<nextId, made, rpc, rpregunta, rsleep, riter>>
ovars == <<opc, ores, oinfo>>
hvars == <<jar, hpc, hloc, hresp, reqs, fn>>
cvars == <<opc, ores, oinfo, calls, hvars>>

NoIter == [obs |-> 0, gens |-> 0, puts |-> 0, outcome |-> "none", msg |-> <<>>]
NoCookie == [k |-> "none"]
Keep == [k |-> "keep"]
Clear == [k |-> "clear"]
BadCookie == [k |-> "bad"]
NoResp == [kind |-> "none", pregunta |-> None, num |-> 0, obtains |-> 0,
           slept |-> 0, loop |-> "none", route |-> "none"]
NoLocals == [route |-> "none", loop |-> "none", enloop |-> FALSE, session |-> <<>>,
             nueva |-> None, intentos |-> 0, respuesta |-> <<>>,
             obtains |-> 0, slept |-> 0]
NoFn == [op |-> "none", arg |-> None, out |-> None, done |-> FALSE]
NoInfo == [gens |-> 0, timedout |-> FALSE, src |-> "none", id |-> 0, waited |-> 0]

\* the question that the fenced completion yields
PreguntaInicial == generar_pregunta(ApiText(TextFenced)).val

\* a cache that the preloading thread has filled with n questions
CacheLleno(n) == [i \in 1..n |-> [id |-> i, rec |-> PreguntaInicial]]

\* cache sizes the behaviours start from: empty (the state at import), and the
\* sizes around CACHE_MIN that the preloading thread reaches in time
Fills == {0, CACHE_MIN - 1, CACHE_MIN}

InitCache ==
    /\ \E n \in Fills : cache = CacheLleno(n) /\ nextId = n + 1
    /\ made = 0
    /\ delivered = EmptyBag
    /\ rpc = "check"
    /\ rpregunta = [id |-> 0, rec |-> None]
    /\ rsleep = 0
    /\ riter = NoIter
    /\ opc = [p \in Procs |-> "idle"]
    /\ ores = [p \in Procs |-> None]
    /\ oinfo = [p \in Procs |-> NoInfo]
    /\ calls = 0
    /\ jar = [p \in Procs |-> NoCookie]
    /\ hpc = [p \in Procs |-> "idle"]
    /\ hloc = [p \in Procs |-> NoLocals]
    /\ hresp = [p \in Procs |-> NoResp]
    /\ reqs = 0
    /\ fn = NoFn

\* ------------------------------------------------------------------------
\* precargar_preguntas
\* ------------------------------------------------------------------------
\* a check that refills an empty cache only
RepCheckVacio ==
    /\ rpc = "check"
    /\ riter' = [NoIter EXCEPT !.obs = Len(cache)]
    /\ IF Len(cache) < 1
       THEN rpc' = "generate" /\ rsleep' = 0
       ELSE rpc' = "sleep" /\ rsleep' = SLEEP_IDLE
    /\ UNCHANGED <<cache, nextId, made, delivered, rpregunta, cvars>>

\* the check with `<=` in place of `<`
RepCheckLe ==
    /\ rpc = "check"
    /\ riter' = [NoIter EXCEPT !.obs = Len(cache)]
    /\ IF Len(cache) <= CACHE_MIN
       THEN rpc' = "generate" /\ rsleep' = 0
       ELSE rpc' = "sleep" /\ rsleep' = SLEEP_IDLE
    /\ UNCHANGED <<cache, nextId, made, delivered, rpregunta, cvars>>

\* `if pregunta_cache.qsize() < CACHE_MIN:` and, in the else branch,
\* `time.sleep(2)`
RepCheck ==
    /\ rpc = "check"
    /\ riter' = [NoIter EXCEPT !.obs = Len(cache)]
    /\ IF Len(cache) < CACHE_MIN
       THEN rpc' = "generate" /\ rsleep' = 0
       ELSE rpc' = "sleep" /\ rsleep' = SLEEP_IDLE
    /\ UNCHANGED <<cache, nextId, made, delivered, rpregunta, cvars>>

\* the same sleep after every exception
SleepAfterErrorFijo(msg) == SLEEP_ERROR

\* the sleep that follows an exception of the try block
SleepAfterError(msg) == IF EsCuota(msg) THEN SLEEP_QUOTA ELSE SLEEP_ERROR

\* every returned value is put
AdmitidaSiempre(pregunta) == TRUE

\* `if es_pregunta_valida(pregunta):` decides whether the question is put
Admitida(pregunta) == es_pregunta_valida(pregunta)

\* what generar_pregunta does for each answer of the service
GeneradaCon == [a \in ApiOutcomes |-> generar_pregunta(a)]

\* `pregunta = generar_pregunta()` and what follows it up to the put or the
\* sleep, with the service answering one of apis
RepGenerateCon(apis) ==
    /\ rpc = "generate"
    /\ \E api \in apis :
         LET g == GeneradaCon[api] IN
         IF g.raised
         THEN /\ rpc' = "sleep"
              /\ rsleep' = SleepAfterError(g.msg)
              /\ riter' = [riter EXCEPT !.gens = @ + 1, !.outcome = "raised",
                                        !.msg = g.msg]
              /\ UNCHANGED <<rpregunta, nextId, made>>
         ELSE IF Admitida(g.val)
         THEN /\ rpc' = "put"
              /\ rsleep' = 0
              /\ rpregunta' = [id |-> nextId, rec |-> g.val]
              /\ nextId' = nextId + 1
              /\ made' = made + 1
              /\ riter' = [riter EXCEPT !.gens = @ + 1, !.outcome = "valid"]
         ELSE /\ rpc' = "sleep"
              /\ rsleep' = SLEEP_OK
              /\ rpregunta' = [id |-> 0, rec |-> g.val]
              /\ riter' = [riter EXCEPT !.gens = @ + 1, !.outcome = "rejected"]
              /\ UNCHANGED <<nextId, made>>
    /\ UNCHANGED <<cache, delivered, cvars>>

\* Once MaxNew valid questions were received the service answers with
\* failures only.
RepGenerate ==
    RepGenerateCon(IF made < MaxNew THEN ApiOutcomes ELSE ApiOutcomes \ ApiValidas)

\* `pregunta_cache.put(pregunta)` (blocks while the queue is full) and
\* `time.sleep(5)`
RepPut ==
    /\ rpc = "put"
    /\ ~QueueFull(cache)
    /\ cache' = QueuePut(cache, rpregunta)
    /\ rpc' = "sleep"
    /\ rsleep' = SLEEP_OK
    /\ riter' = [riter EXCEPT !.puts = @ + 1]
    /\ UNCHANGED <<nextId, made, delivered, rpregunta, cvars>>

\* a loop that ends after an exception
RepWakeSale ==
    /\ rpc = "sleep"
    /\ rpc' = IF riter.outcome = "raised" THEN "exit" ELSE "check"
    /\ rsleep' = 0
    /\ rpregunta' = [id |-> 0, rec |-> None]
    /\ riter' = NoIter
    /\ UNCHANGED <<cache, nextId, made, delivered, cvars>>

\* the sleep ends: `while True:`
RepWake ==
    /\ rpc = "sleep"
    /\ rpc' = "check"
    /\ rsleep' = 0
    /\ rpregunta' = [id |-> 0, rec |-> None]   \* dead until assigned again
    /\ riter' = NoIter
    /\ UNCHANGED <<cache, nextId, made, delivered, cvars>>

Replenisher == RepCheck \/ RepGenerate \/ RepPut \/ RepWake

\* ------------------------------------------------------------------------
\* obtener_pregunta_cache_async
\* ------------------------------------------------------------------------
Returned(p, val, info) ==
    /\ opc' = [opc EXCEPT ![p] = "ret"]
    /\ ores' = [ores EXCEPT ![p] = val]
    /\ oinfo' = [oinfo EXCEPT ![p] = info]

Raised(p, info) ==
    /\ opc' = [opc EXCEPT ![p] = "raised"]
    /\ ores' = [ores EXCEPT ![p] = None]
    /\ oinfo' = [oinfo EXCEPT ![p] = info]

\* a fallback that calls the generator again when the call raises
FallbackCallRetry(p, info) ==
    \E api \in ApiOutcomes :
        LET g == generar_pregunta(api)
            i == [info EXCEPT !.gens = @ + 1, !.src = "fallback"]
        IN  IF g.raised
            THEN \E api2 \in ApiOutcomes :
                    LET g2 == generar_pregunta(api2)
                        i2 == [i EXCEPT !.gens = @ + 1]
                    IN  IF g2.raised THEN Raised(p, i2) ELSE Returned(p, g2.val, i2)
            ELSE Returned(p, g.val, i)

\* a call of generar_pregunta that is the last statement of the coroutine:
\* its value is returned, its exception propagates
FallbackCall(p, info) ==
    \E api \in ApiOutcomes :
        LET g == generar_pregunta(api)
            i == [info EXCEPT !.gens = @ + 1, !.src = "fallback"]
        IN  IF g.raised THEN Raised(p, i) ELSE Returned(p, g.val, i)

\* pregunta_cache.get returned an entry within the timeout
ObtainGet(p) ==
    /\ opc[p] = "get"
    /\ cache # <<>>
    /\ LET got == QueueGet(cache)
           info == [oinfo[p] EXCEPT !.id = got.item.id]
       IN  /\ cache' = got.rest
           /\ delivered' = delivered (+) SetToBag({got.item.id})
           /\ IF es_pregunta_valida(got.item.rec)
              THEN Returned(p, got.item.rec, [info EXCEPT !.src = "cache"])
              ELSE \* `return generar_pregunta()` inside the try: an exception
                   \* of this call is caught by `except Exception`
                   \E api \in ApiOutcomes :
                       LET g == generar_pregunta(api)
                           i == [info EXCEPT !.gens = @ + 1, !.src = "fallback"]
                       IN  IF g.raised THEN FallbackCall(p, i)
                           ELSE Returned(p, g.val, i)
    /\ UNCHANGED <<rvars, calls, hvars>>

\* a fallback that also puts the question it returns into the cache
ObtainTimeoutGuarda(p) ==
    /\ opc[p] = "get"
    /\ cache = <<>>
    /\ FallbackCall(p, [oinfo[p] EXCEPT !.timedout = TRUE, !.waited = GET_TIMEOUT])
    /\ cache' = IF opc'[p] = "ret" THEN <<[id |-> 0, rec |-> ores'[p]]>> ELSE cache
    /\ UNCHANGED <<delivered, rvars, calls, hvars>>

\* pregunta_cache.get(timeout=10) raised queue.Empty: the queue was empty when
\* the wait ended
ObtainTimeout(p) ==
    /\ opc[p] = "get"
    /\ cache = <<>>
    /\ FallbackCall(p, [oinfo[p] EXCEPT !.timedout = TRUE, !.waited = GET_TIMEOUT])
    /\ UNCHANGED <<cache, delivered, rvars, calls, hvars>>

\* ------------------------------------------------------------------------
\* Processes that call obtener_pregunta_cache_async and drop the result
\* ------------------------------------------------------------------------
CallObtain(p) ==
    /\ opc[p] = "idle" /\ hpc[p] = "idle"
    /\ calls < MaxCalls
    /\ calls' = calls + 1
    /\ opc' = [opc EXCEPT ![p] = "get"]
    /\ ores' = [ores EXCEPT ![p] = None]
    /\ oinfo' = [oinfo EXCEPT ![p] = NoInfo]
    /\ UNCHANGED <<cache, delivered, rvars, hvars>>

ObtainDone(p) ==
    /\ opc[p] \in {"ret", "raised"} /\ hpc[p] = "idle"
    /\ opc' = [opc EXCEPT ![p] = "idle"]
    /\ ores' = [ores EXCEPT ![p] = None]
    /\ oinfo' = [oinfo EXCEPT ![p] = NoInfo]
    /\ UNCHANGED <<cache, delivered, rvars, calls, hvars>>

NextCache ==
    \/ Replenisher
    \/ \E p \in Procs : CallObtain(p)
    \/ \E p \in Procs : ObtainGet(p)
    \/ \E p \in Procs : ObtainTimeout(p)
    \/ \E p \in Procs : ObtainDone(p)

SpecCache == InitCache /\ [][NextCache]_vars

\* ------------------------------------------------------------------------
\* The preloading thread under fair scheduling
\* ------------------------------------------------------------------------
\* the one process that still takes questions
LiveProcs == {1}

\* the processes have made all their calls and none is under way: from here
\* on nothing is taken from the cache
Settled == calls = MaxCalls /\ \A p \in LiveProcs : opc[p] = "idle"

\* what the service answers in these behaviours: failures, completions that
\* are rejected and one valid completion
LiveOutcomes == ApiOutcomes \ {ApiText(TextComma)}

\* once the processes have stopped the service answers with valid
\* completions only
RepGenerateLive ==
    RepGenerateCon(IF Settled THEN LiveOutcomes \cap ApiValidas ELSE LiveOutcomes)

ReplenisherLive == RepCheck \/ RepGenerateLive \/ RepPut \/ RepWake

\* the states these behaviours start from, as cache size and calls made: an
\* empty cache with the last call still to come or with none, and the sizes
\* around CACHE_MIN with every call still to come
LiveStarts ==
    {<<0, MaxCalls - 1>>, <<0, MaxCalls>>,
     <<CACHE_MIN - 1, 0>>, <<CACHE_MIN, 0>>}

InitLive ==
    /\ \E st \in LiveStarts :
          cache = CacheLleno(st[1]) /\ nextId = st[1] + 1 /\ calls = st[2]
    /\ made = 0
    /\ delivered = EmptyBag
    /\ rpc = "check"
    /\ rpregunta = [id |-> 0, rec |-> None]
    /\ rsleep = 0
    /\ riter = NoIter
    /\ opc = [p \in Procs |-> "idle"]
    /\ ores = [p \in Procs |-> None]
    /\ oinfo = [p \in Procs |-> NoInfo]
    /\ jar = [p \in Procs |-> NoCookie]
    /\ hpc = [p \in Procs |-> "idle"]
    /\ hloc = [p \in Procs |-> NoLocals]
    /\ hresp = [p \in Procs |-> NoResp]
    /\ reqs = 0
    /\ fn = NoFn

NextLive ==
    \/ ReplenisherLive
    \/ \E p \in LiveProcs : CallObtain(p)
    \/ \E p \in LiveProcs : ObtainGet(p)
    \/ \E p \in LiveProcs : ObtainTimeout(p)
    \/ \E p \in LiveProcs : ObtainDone(p)

\* The thread is a daemon thread of the process: it is scheduled, its sleeps
\* end, and the API call it waits for returns or raises.
SpecLive == InitLive /\ [][NextLive]_vars /\ WF_vars(ReplenisherLive)

\* ------------------------------------------------------------------------
\* Session cookie
\* ------------------------------------------------------------------------
\* get_session: {} without a cookie or with a cookie whose signature is bad
get_session(cookie) == IF cookie.k = "signed" THEN cookie.data ELSE <<>>

\* set_session: the signed serialisation of the session
set_session(session_data) == [k |-> "signed", data |-> session_data]

SessionKeys == {"puntaje", "total", "inicio", "pregunta_actual"}

\* all(k in session for k in [...])
SesionCompleta(session) == SessionKeys \subseteq DOMAIN session

\* the session quiz_get builds for a new quiz (the clock is not modelled)
SesionNueva(nueva_pregunta) ==
    [puntaje |-> 0, total |-> 0, inicio |-> 0,
     pregunta_actual |-> nueva_pregunta, errores |-> <<>>]

\* ------------------------------------------------------------------------
\* quiz_get and quiz_post
\* ------------------------------------------------------------------------
\* What a handler does up to its next await or its return is computed as a
\* record: the handler's next position, its locals, the response it returns
\* and the cookie the response sets (Keep: none, Clear: delete_cookie).

\* the handler returns (or raises: kind "exception", FastAPI answers 500)
Finish(loc, kind, pregunta, cookie) ==
    [pc |-> "idle", loc |-> NoLocals, call |-> FALSE, cookie |-> cookie,
     resp |-> [kind |-> kind, pregunta |-> pregunta,
               num |-> IF kind = "page" THEN loc.session.total + 1 ELSE 0,
               obtains |-> loc.obtains, slept |-> loc.slept, loop |-> loc.loop,
               route |-> loc.route]]

\* `await obtener_pregunta_cache_async()`
AwaitObtain(loc) ==
    [pc |-> "wait", loc |-> [loc EXCEPT !.obtains = @ + 1], call |-> TRUE,
     cookie |-> Keep, resp |-> NoResp]

\* `await asyncio.sleep(2)`
AwaitSleep(loc) ==
    [pc |-> "pause", loc |-> [loc EXCEPT !.enloop = TRUE], call |-> FALSE,
     cookie |-> Keep, resp |-> NoResp]

\* the retry condition with `<=` in place of `<`
SigueReintentandoLe(pregunta, intentos) ==
    ~es_pregunta_valida(pregunta) /\ intentos <= MAX_INTENTOS

\* `while not es_pregunta_valida(...) and intentos < 10:`
SigueReintentando(pregunta, intentos) ==
    ~es_pregunta_valida(pregunta) /\ intentos < MAX_INTENTOS

\* the check after the loop left out
AgotadoNunca(pregunta) == FALSE

\* `if not es_pregunta_valida(...):` after the loop: the error redirect
Agotado(pregunta) == ~es_pregunta_valida(pregunta)

\* an error redirect that saves the handler's session
ErrorRedirectGuarda(loc) ==
    Finish(loc, "redirect_error", None, set_session(loc.session))

\* the error redirect: returned without set_session
ErrorRedirect(loc) == Finish(loc, "redirect_error", None, Keep)

\* quiz_get from `pregunta = session['pregunta_actual']` on
Render(loc) ==
    Finish(loc, "page", loc.session.pregunta_actual, set_session(loc.session))

\* the scoring with `>` in place of `>=` in the test of the last question
PuntuarMayor(loc) ==
    LET actual == loc.session.pregunta_actual.d
        seleccion == loc.respuesta
    IN  IF "respuesta_correcta" \notin DOMAIN actual \/ "explicacion" \notin DOMAIN actual
        THEN Finish(loc, "exception", None, Keep)
        ELSE IF seleccion # <<>> /\ actual.respuesta_correcta.t # "str"
        THEN Finish(loc, "exception", None, Keep)
        ELSE LET acierto == /\ seleccion # <<>>
                            /\ Strip(seleccion) = Strip(actual.respuesta_correcta.s)
                 session == [loc.session EXCEPT
                                !.total = @ + 1,
                                !.puntaje = IF acierto THEN @ + 1 ELSE @]
             IN  IF session.total > MAX_PREGUNTAS
                 THEN Finish([loc EXCEPT !.session = session],
                             "redirect_resultado", None, Clear)
                 ELSE AwaitObtain([loc EXCEPT !.session = session, !.loop = "new",
                                              !.enloop = FALSE])

\* quiz_post from `seleccion = respuesta` on
Puntuar(loc) ==
    LET actual == loc.session.pregunta_actual.d
        seleccion == loc.respuesta
    IN  IF "respuesta_correcta" \notin DOMAIN actual \/ "explicacion" \notin DOMAIN actual
        THEN Finish(loc, "exception", None, Keep)      \* KeyError
        ELSE IF seleccion # <<>> /\ actual.respuesta_correcta.t # "str"
        THEN Finish(loc, "exception", None, Keep)      \* no .strip()
        ELSE LET acierto == /\ seleccion # <<>>
                            /\ Strip(seleccion) = Strip(actual.respuesta_correcta.s)
                 session == [loc.session EXCEPT
                                !.total = @ + 1,
                                !.puntaje = IF acierto THEN @ + 1 ELSE @]
             IN  IF session.total >= MAX_PREGUNTAS
                 THEN Finish([loc EXCEPT !.session = session],
                             "redirect_resultado", None, Clear)
                 ELSE AwaitObtain([loc EXCEPT !.session = session, !.loop = "new",
                                              !.enloop = FALSE])

\* the loop over session['pregunta_actual'] and what follows it
BucleActual(loc) ==
    IF SigueReintentando(loc.session.pregunta_actual, loc.intentos)
    THEN AwaitSleep([loc EXCEPT !.loop = "actual"])
    ELSE IF Agotado(loc.session.pregunta_actual) THEN ErrorRedirect(loc)
    ELSE IF loc.route = "get" THEN Render(loc)
    ELSE Puntuar(loc)

\* the loop over nueva_pregunta and what follows it
BucleNueva(loc) ==
    IF SigueReintentando(loc.nueva, loc.intentos)
    THEN AwaitSleep(loc)
    ELSE IF Agotado(loc.nueva) THEN ErrorRedirect(loc)
    ELSE IF loc.route = "get"
    THEN BucleActual([loc EXCEPT !.session = SesionNueva(loc.nueva), !.intentos = 0])
    ELSE Finish(loc, "redirect_quiz", None,
                set_session([loc.session EXCEPT !.pregunta_actual = loc.nueva]))

\* the value of an awaited obtener_pregunta_cache_async arrives
AlObtener(loc, val) ==
    IF loc.loop = "new"
    THEN BucleNueva([loc EXCEPT !.nueva = val,
                                !.intentos = IF loc.enloop THEN @ + 1 ELSE 0])
    ELSE BucleActual([loc EXCEPT !.session.pregunta_actual = val,
                                 !.intentos = @ + 1])

\* quiz_get up to its first await or its return
QuizGetInicio(session) ==
    LET loc == [NoLocals EXCEPT !.route = "get", !.session = session] IN
    IF ~SesionCompleta(session) \/ session = <<>>
    THEN AwaitObtain([loc EXCEPT !.loop = "new"])
    ELSE BucleActual(loc)

\* quiz_post up to its first await or its return
QuizPostInicio(session, respuesta) ==
    LET loc == [NoLocals EXCEPT !.route = "post", !.session = session,
                                !.respuesta = respuesta] IN
    IF ~SesionCompleta(session)
    THEN Finish(loc, "redirect_inicio", None, Keep)
    ELSE BucleActual(loc)

\* the handler of client p moves on as the record r says
Avanza(p, r) ==
    /\ hpc' = [hpc EXCEPT ![p] = r.pc]
    /\ hloc' = [hloc EXCEPT ![p] = r.loc]
    /\ hresp' = [hresp EXCEPT ![p] = r.resp]
    /\ jar' = [jar EXCEPT ![p] = IF r.cookie.k = "keep" THEN @
                                 ELSE IF r.cookie.k = "clear" THEN NoCookie
                                 ELSE r.cookie]
    /\ opc' = [opc EXCEPT ![p] = IF r.call THEN "get" ELSE "idle"]
    /\ ores' = [ores EXCEPT ![p] = None]
    /\ oinfo' = [oinfo EXCEPT ![p] = NoInfo]
    /\ UNCHANGED <<cache, delivered, rvars, calls, fn>>

\* the answers a client may submit
Respuestas == {<<>>, <<"2">>, <<"3", " ">>}

\* the browser sends its cookie; a cookie with a bad signature may arrive
Enviadas(p) == {jar[p], BadCookie}

\* GET /
Inicio(p) ==
    /\ hpc[p] = "idle" /\ opc[p] = "idle"
    /\ reqs < MaxReqs
    /\ reqs' = reqs + 1
    /\ Avanza(p, Finish(NoLocals, "inicio", None, Clear))

\* GET /quiz arrives
QuizGet(p) ==
    /\ hpc[p] = "idle" /\ opc[p] = "idle"
    /\ reqs < MaxReqs
    /\ reqs' = reqs + 1
    /\ \E cookie \in Enviadas(p) : Avanza(p, QuizGetInicio(get_session(cookie)))

\* POST /quiz arrives
QuizPost(p) ==
    /\ hpc[p] = "idle" /\ opc[p] = "idle"
    /\ reqs < MaxReqs
    /\ reqs' = reqs + 1
    /\ \E cookie \in Enviadas(p), respuesta \in Respuestas :
          Avanza(p, QuizPostInicio(get_session(cookie), respuesta))

\* asyncio.sleep(2) ends and the handler calls obtener_pregunta_cache_async
FinPausa(p) ==
    /\ hpc[p] = "pause"
    /\ UNCHANGED reqs
    /\ Avanza(p, AwaitObtain([hloc[p] EXCEPT !.slept = @ + RETRY_PAUSE]))

\* obtener_pregunta_cache_async returned to the handler
Reanuda(p) ==
    /\ hpc[p] = "wait" /\ opc[p] = "ret"
    /\ UNCHANGED reqs
    /\ Avanza(p, AlObtener(hloc[p], ores[p]))

\* obtener_pregunta_cache_async raised: the handler does not catch it
Propaga(p) ==
    /\ hpc[p] = "wait" /\ opc[p] = "raised"
    /\ UNCHANGED reqs
    /\ Avanza(p, Finish(hloc[p], "exception", None, Keep))

\* the clients of the quiz
Clients == {1}

\* cache sizes the quiz behaviours start from
QuizFills == {0, 2}

\* cookies the quiz behaviours start from: none, and the sessions of a quiz
\* at its start and near its end, with none or all answers right
QuizCookies ==
    {NoCookie} \cup
    UNION {{set_session([SesionNueva(PreguntaInicial) EXCEPT
                            !.total = t, !.puntaje = pt]) : pt \in {0, t}} :
           t \in {0, MAX_PREGUNTAS - 2, MAX_PREGUNTAS - 1}}

InitQuiz ==
    /\ \E n \in QuizFills : cache = CacheLleno(n) /\ nextId = n + 1
    /\ made = 0
    /\ delivered = EmptyBag
    /\ rpc = "check"
    /\ rpregunta = [id |-> 0, rec |-> None]
    /\ rsleep = 0
    /\ riter = NoIter
    /\ opc = [p \in Procs |-> "idle"]
    /\ ores = [p \in Procs |-> None]
    /\ oinfo = [p \in Procs |-> NoInfo]
    /\ calls = 0
    /\ \E c \in QuizCookies : jar = [p \in Procs |-> c]
    /\ hpc = [p \in Procs |-> "idle"]
    /\ hloc = [p \in Procs |-> NoLocals]
    /\ hresp = [p \in Procs |-> NoResp]
    /\ reqs = 0
    /\ fn = NoFn

\* The routes reach the preloading thread through the cache alone; SpecQuiz
\* starts from caches that thread has left and follows the requests.
NextQuiz ==
    \/ \E p \in Clients : Inicio(p)
    \/ \E p \in Clients : QuizGet(p)
    \/ \E p \in Clients : QuizPost(p)
    \/ \E p \in Clients : FinPausa(p)
    \/ \E p \in Clients : Reanuda(p)
    \/ \E p \in Clients : Propaga(p)
    \/ \E p \in Clients : ObtainGet(p)
    \/ \E p \in Clients : ObtainTimeout(p)

SpecQuiz == InitQuiz /\ [][NextQuiz]_vars

\* ------------------------------------------------------------------------
\* The validator, the normalisation and the generator on their own
\* ------------------------------------------------------------------------
\* a key that the dict does not have
Ausente == [t |-> "absent"]

\* the dict with the keys of f whose value is not Ausente
DictDe(f) == Dict([k \in {x \in DOMAIN f : f[x] # Ausente} |-> f[k]])

Opciones3 == List(<<Str(<<"1">>), Str(<<"2">>), Str(<<"3">>)>>)
Opciones5 ==
    List(<<Str(<<"1">>), Str(<<"2">>), Str(<<"3">>), Str(<<"4">>), Str(<<"5">>)>>)

\* values of "pregunta" and "codigo"
CampoTexto == {Ausente, None, Str(<<>>), Str(<<"Q">>), Num(0)}
\* values of "respuestas"
CampoOpciones ==
    {Ausente, None, List(<<>>), Opciones3, Opciones, Opciones5,
     Str(<<"1", ",", "2", ",", "3", ",", "4">>)}
\* values of "respuesta_correcta": the one of the options, one of them with
\* a blank before it, a text that is no option, a number
CampoCorrecta ==
    {Ausente, Str(<<>>), Str(<<"2">>), Str(<<" ", "3">>), Str(<<"9">>), Num(2)}
\* values of "explicacion"
CampoExplicacion == {Ausente, Str(<<>>), Str(<<"e">>)}

\* the objects es_pregunta_valida is applied to
Candidatos ==
    {None, Str(<<"Q">>), Opciones, Num(1)} \cup
    {DictDe(("pregunta" :> p) @@ ("codigo" :> c) @@ ("respuestas" :> r) @@
            ("respuesta_correcta" :> rc) @@ ("explicacion" :> e) @@
            ("error" :> err)) :
        p \in CampoTexto, c \in {Ausente, Str(<<>>), Str(<<"c">>)},
        r \in CampoOpciones, rc \in CampoCorrecta, e \in CampoExplicacion,
        err \in {Ausente, Str(<<"No se pudo extraer el JSON">>)}}

\* values of "Respuestas" in a decoded completion
JsonRespuestas ==
    {Ausente, None, Num(4), Dict([a |-> Num(1)]), List(<<>>), Opciones3,
     Opciones, Opciones5,
     Str(<<>>), Str(<<"1">>), Str(<<"1", ",", "2", ",", "3">>),
     Str(<<"1", ",", "2", ",", "3", ",", "4">>),
     Str(<<" ", "1", " ", ",", "2", " ", "b", ",", ",", " ", "4", " ">>),
     Str(<<"1", ",", " ", "2", ",", "3", ",", " ", ",", "5">>)}

\* the documents a completion may hold: objects with the prompt's keys, some
\* of them missing or of another shape, and a document that is no object
JsonDocs ==
    {Opciones} \cup
    {DictDe(("Pregunta" :> p) @@ ("Codigo" :> c) @@ ("Respuestas" :> r) @@
            ("Respuesta correcta" :> rc) @@ ("Explicacion" :> e)) :
        p \in {Ausente, Str(<<>>), Str(<<"Q">>)}, c \in {Ausente, Str(<<"c">>)},
        r \in JsonRespuestas, rc \in CampoCorrecta \ {Str(<<>>)},
        e \in {Ausente, Str(<<"e">>)}}

\* the texts of a completion: the document alone, fenced as the prompt's
\* example, fenced without the language, with a fence missing, with other
\* text after it
Textos ==
    {TextNoJson, <<>>} \cup
    UNION {{<<Doc(d)>>, <<FenceJson, Doc(d), Fence>>, <<Fence, Doc(d), Fence>>,
            <<FenceJson, Doc(d)>>, <<Doc(d), Junk>>} : d \in JsonDocs}

\* the outcomes of client.models.generate_content
ApiTodas ==
    {ApiRaise(MsgQuota), ApiRaise(MsgOtro), ApiNoText} \cup
    {ApiText(toks) : toks \in Textos}

FnInputs ==
    {[op |-> "validar", arg |-> c, out |-> None, done |-> FALSE] :
        c \in Candidatos} \cup
    {[op |-> "normalizar", arg |-> IF r = Ausente THEN None ELSE r,
      out |-> None, done |-> FALSE] : r \in JsonRespuestas} \cup
    {[op |-> "generar", arg |-> a, out |-> None, done |-> FALSE] :
        a \in ApiTodas}

InitPuro ==
    /\ cache = <<>> /\ nextId = 1
    /\ made = 0
    /\ delivered = EmptyBag
    /\ rpc = "check"
    /\ rpregunta = [id |-> 0, rec |-> None]
    /\ rsleep = 0
    /\ riter = NoIter
    /\ opc = [p \in Procs |-> "idle"]
    /\ ores = [p \in Procs |-> None]
    /\ oinfo = [p \in Procs |-> NoInfo]
    /\ calls = 0
    /\ jar = [p \in Procs |-> NoCookie]
    /\ hpc = [p \in Procs |-> "idle"]
    /\ hloc = [p \in Procs |-> NoLocals]
    /\ hresp = [p \in Procs |-> NoResp]
    /\ reqs = 0
    /\ fn \in FnInputs

pvars == <<cache, nextId, made, delivered, rpc, rpregunta, rsleep, riter,
           opc, ores, oinfo, calls, jar, hpc, hloc, hresp, reqs>>

\* es_pregunta_valida(pregunta)
Validar ==
    /\ fn.op = "validar" /\ ~fn.done
    /\ fn' = [fn EXCEPT !.out = es_pregunta_valida(fn.arg), !.done = TRUE]
    /\ UNCHANGED pvars

\* lines 177-181 on the value of pregunta_json.get("Respuestas")
Normalizar ==
    /\ fn.op = "normalizar" /\ ~fn.done
    /\ fn' = [fn EXCEPT !.out = NormalizarRespuestas(fn.arg), !.done = TRUE]
    /\ UNCHANGED pvars

\* generar_pregunta()
Generar ==
    /\ fn.op = "generar" /\ ~fn.done
    /\ fn' = [fn EXCEPT !.out = generar_pregunta(fn.arg), !.done = TRUE]
    /\ UNCHANGED pvars

NextPuro == Validar \/ Normalizar \/ Generar

SpecPuro == InitPuro /\ [][NextPuro]_vars

\* ------------------------------------------------------------------------
\* Properties of the cache, the preloading thread and the retrieval
\* ------------------------------------------------------------------------
HasMarker(msg) == \E i \in 1..Len(msg) : msg[i] = "RESOURCE_EXHAUSTED"
CacheIds == {cache[i].id : i \in 1..Len(cache)}

\* C1: the cache never holds more than CACHE_SIZE records, and the step in
\* which the preloading thread inserts a record keeps every resident record,
\* in order, and adds the new one at the end.
C1_CapacityNoEvict ==
    /\ [](Len(cache) <= CACHE_SIZE)
    /\ [][(rpc = "put" /\ rpc' = "sleep") =>
            /\ Len(cache') = Len(cache) + 1
            /\ SubSeq(cache', 1, Len(cache)) = cache
            /\ cache'[Len(cache')] = rpregunta]_vars

\* an insertion into a cache that held CACHE_MIN - 1 records
C1_Witness ==
    rpc = "sleep" /\ riter.puts = 1 /\ riter.obs = CACHE_MIN - 1
    /\ Len(cache) = CACHE_MIN

\* C2: no cache entry is returned by more than one get: every identity was
\* delivered at most once, a delivered entry is no longer in the cache, and
\* two processes that hold a result taken from the cache hold different ones.
C2_AtMostOnce ==
    /\ \A id \in BagToSet(delivered) : CopiesIn(id, delivered) = 1
    /\ BagToSet(delivered) \cap CacheIds = {}
    /\ \A p, q \in Procs :
         (p # q /\ oinfo[p].src = "cache" /\ oinfo[q].src = "cache")
             => oinfo[p].id # oinfo[q].id

\* two processes hold results of concurrent gets
C2_Witness ==
    \E p, q \in Procs :
        /\ p # q
        /\ opc[p] = "ret" /\ opc[q] = "ret"
        /\ oinfo[p].src = "cache" /\ oinfo[q].src = "cache"

\* C3: every record in the cache passes es_pregunta_valida, and an iteration
\* of the preloading thread whose generator call raised or returned a record
\* that the validator rejects made no insertion.
C3_OnlyValidCached ==
    /\ \A i \in 1..Len(cache) : es_pregunta_valida(cache[i].rec)
    /\ riter.outcome \in {"raised", "rejected"} =>
          riter.puts = 0 /\ rpc = "sleep"

\* the preloading thread sleeps after a parse failure, next to a filled cache
C3_Witness ==
    /\ rpc = "sleep" /\ riter.outcome = "rejected" /\ riter.puts = 0
    /\ rpregunta.rec = ErrorJson([t |-> "text", toks |-> TextNoJson])
    /\ Len(cache) = CACHE_MIN - 1

\* C4 as stated: every value obtener_pregunta_cache_async returns passes
\* es_pregunta_valida, from the cache or from the fallback call.
C4_Original ==
    \A p \in Procs : opc[p] = "ret" => es_pregunta_valida(ores[p])

\* C4 amended: a value returned from the cache passes es_pregunta_valida; a
\* value returned from the fallback call passes it or carries the "error" key.
C4_ReturnedValidOrMarked ==
    \A p \in Procs : opc[p] = "ret" =>
        /\ oinfo[p].src \in {"cache", "fallback"}
        /\ oinfo[p].src = "cache" => es_pregunta_valida(ores[p])
        /\ oinfo[p].src = "fallback" =>
              \/ es_pregunta_valida(ores[p])
              \/ ores[p].t = "dict" /\ "error" \in DOMAIN ores[p].d

\* the fallback call returned an error dict to the caller
C4_Witness ==
    \E p \in Procs :
        /\ opc[p] = "ret" /\ oinfo[p].src = "fallback"
        /\ ~es_pregunta_valida(ores[p]) /\ "error" \in DOMAIN ores[p].d

\* C7: a call whose get timed out makes no generator call while it waits and
\* has made exactly one when it ends.
C7_OneFallbackCall ==
    \A p \in Procs :
        /\ opc[p] = "get" => oinfo[p].gens = 0
        /\ (opc[p] \in {"ret", "raised"} /\ oinfo[p].timedout) =>
              oinfo[p].gens = 1 /\ oinfo[p].src = "fallback"

\* a call returned after its get timed out
C7_Witness ==
    \E p \in Procs :
        /\ opc[p] = "ret" /\ oinfo[p].timedout /\ oinfo[p].waited = GET_TIMEOUT
        /\ oinfo[p].gens = 1

\* C9: the preloading thread's sleep after a generator call that raised is
\* SLEEP_QUOTA exactly when the message holds RESOURCE_EXHAUSTED and
\* SLEEP_ERROR otherwise; after a call that returned it is SLEEP_OK.
C9_BackoffSelection ==
    rpc = "sleep" =>
        /\ riter.outcome = "raised" =>
              /\ rsleep = SLEEP_QUOTA <=> HasMarker(riter.msg)
              /\ ~HasMarker(riter.msg) => rsleep = SLEEP_ERROR
        /\ riter.outcome \in {"valid", "rejected"} => rsleep = SLEEP_OK

\* the sleep after a quota failure
C9_Witness ==
    /\ rpc = "sleep" /\ riter.outcome = "raised" /\ riter.msg = MsgQuota
    /\ rsleep = SLEEP_QUOTA

\* C10: the preloading thread calls the generator and inserts only in an
\* iteration that observed a size below CACHE_MIN; in an iteration that
\* observed CACHE_MIN or more it does neither, sleeps SLEEP_IDLE and then
\* checks the size again.
C10_GenerateOnlyBelowMin ==
    /\ []((rpc \in {"generate", "put"} \/ riter.gens > 0 \/ riter.puts > 0)
             => riter.obs < CACHE_MIN)
    /\ []((rpc = "sleep" /\ riter.obs >= CACHE_MIN)
             => riter.gens = 0 /\ riter.puts = 0 /\ rsleep = SLEEP_IDLE)
    /\ [][(rpc = "sleep" /\ rpc' # "sleep") =>
             rpc' = "check" /\ cache' = cache]_vars
    /\ [][(rpc = "check" /\ rpc' # "check") => riter'.obs = Len(cache)]_vars

\* the idle sleep of an iteration that observed CACHE_MIN records
C10_Witness ==
    rpc = "sleep" /\ riter.obs = CACHE_MIN /\ rsleep = SLEEP_IDLE

C16_ObtainNeverInserts ==
    [][\A p \in Procs :
          (opc[p] = "get" /\ opc'[p] # "get") =>
              /\ oinfo'[p].timedout => cache' = cache
              /\ ~oinfo'[p].timedout =>
                    /\ cache # <<>>
                    /\ cache' = Tail(cache)
                    /\ oinfo'[p].id = Head(cache).id
              /\ Len(cache') <= Len(cache)]_vars

\* a call returned the fallback call's record and the cache is still empty
C16_Witness ==
    \E p \in Procs :
        /\ opc[p] = "ret" /\ oinfo[p].src = "fallback" /\ oinfo[p].timedout
        /\ es_pregunta_valida(ores[p])
        /\ cache = <<>>

\* C18: the cache never holds more than CACHE_MIN records: the preloading
\* thread is at its put only with fewer than CACHE_MIN records in the cache,
\* so the cache stays below CACHE_SIZE and the put does not wait.
C18_NeverAboveMin ==
    /\ Len(cache) <= CACHE_MIN
    /\ rpc = "put" => Len(cache) < CACHE_MIN
    /\ Len(cache) < CACHE_SIZE

\* the preloading thread refilled the cache to CACHE_MIN and found it so
C18_Witness ==
    /\ Len(cache) = CACHE_MIN /\ made >= 1
    /\ rpc = "sleep" /\ riter.obs = CACHE_MIN /\ riter.gens = 0

\* the preloading thread is at its generator call, or holds the question
\* that the call returned and is about to put it
EnLlamada == rpc \in {"generate", "put"}

C15_NeverStops ==
    /\ [](rpc \in {"check", "generate", "put", "sleep"})
    /\ [][(rpc = "generate" /\ rpc' # rpc) => rpc' \in {"put", "sleep"}]_vars
    /\ [][(rpc = "put" /\ rpc' # rpc) => rpc' = "sleep"]_vars
    /\ [][(rpc = "sleep" /\ rpc' # rpc) => rpc' = "check"]_vars
    /\ \A o \in {"valid", "rejected", "raised"} :
          (riter.outcome = o) ~> (rpc = "check")
    /\ []<>(rpc = "check")

\* the thread went on after a valid question and is now in the sleep that
\* follows a quota failure
C15_Witness ==
    /\ made >= 1
    /\ rpc = "sleep" /\ riter.outcome = "raised" /\ riter.msg = MsgQuota
    /\ rsleep = SLEEP_QUOTA

\* ------------------------------------------------------------------------
\* Properties of the validator and the generator
\* ------------------------------------------------------------------------
\* a field that is missing or empty: no key, None, "", [], {} or 0
Vacio(d, k) ==
    \/ k \notin DOMAIN d
    \/ d[k] \in {None, Str(<<>>), List(<<>>), Num(0)}
    \/ d[k].t = "dict" /\ DOMAIN d[k].d = {}

\* the options are a list of exactly four entries
CuatroOpciones(d) ==
    /\ "respuestas" \in DOMAIN d
    /\ d.respuestas.t = "list"
    /\ Len(d.respuestas.l) = 4

\* C12: es_pregunta_valida is false for an object that is no dict, has the
\* "error" key, lacks or has empty one of pregunta, codigo and
\* respuesta_correcta, or whose respuestas is not a list of four entries; it
\* is true for every other dict, whatever its explicacion.
C12_ValidatorCorrect ==
    (fn.op = "validar" /\ fn.done) =>
        LET c == fn.arg IN
        /\ c.t # "dict" => fn.out = FALSE
        /\ c.t = "dict" =>
              /\ "error" \in DOMAIN c.d => fn.out = FALSE
              /\ (\E k \in {"pregunta", "codigo", "respuesta_correcta"} :
                      Vacio(c.d, k)) => fn.out = FALSE
              /\ ~CuatroOpciones(c.d) => fn.out = FALSE
              /\ ( /\ "error" \notin DOMAIN c.d
                   /\ \A k \in {"pregunta", "codigo", "respuesta_correcta"} :
                         ~Vacio(c.d, k)
                   /\ CuatroOpciones(c.d) ) => fn.out = TRUE

\* a complete dict with an empty explicacion was accepted
C12_Witness ==
    /\ fn.op = "validar" /\ fn.done /\ fn.out = TRUE
    /\ "explicacion" \in DOMAIN fn.arg.d /\ fn.arg.d.explicacion = Str(<<>>)

\* the right answer of the question is, blanks at its ends apart, one of its
\* options
EntreOpciones(pregunta) ==
    /\ pregunta.d.respuesta_correcta.t = "str"
    /\ \E i \in 1..Len(pregunta.d.respuestas.l) :
          /\ pregunta.d.respuestas.l[i].t = "str"
          /\ Strip(pregunta.d.respuestas.l[i].s) =
                Strip(pregunta.d.respuesta_correcta.s)

\* C13: every object that es_pregunta_valida accepts, and every question
\* that generar_pregunta returns as a valid one, has a respuesta_correcta
\* that equals one of its four options once both are stripped.
C13_CorrectAmongOptions ==
    /\ (fn.op = "validar" /\ fn.done /\ fn.out = TRUE) => EntreOpciones(fn.arg)
    /\ (fn.op = "generar" /\ fn.done) =>
          ((~fn.out.raised /\ es_pregunta_valida(fn.out.val))
              => EntreOpciones(fn.out.val))

\* the number of commas of a string
Comas(s) == Cardinality({i \in 1..Len(s) : s[i] = ","})

NoBlanco(c) == c # " "
SinBlancos(s) == SelectSeq(s, NoBlanco)

\* the strings of a list joined by commas
RECURSIVE Unir(_)
Unir(l) ==
    IF l = <<>> THEN <<>>
    ELSE IF Len(l) = 1 THEN l[1].s
    ELSE l[1].s \o <<",">> \o Unir(Tail(l))

\* out is the list of the pieces of s between its commas, each stripped
EsPartida(s, out) ==
    /\ out.t = "list"
    /\ Len(out.l) = Comas(s) + 1
    /\ \A i \in 1..Len(out.l) :
          /\ out.l[i].t = "str"
          /\ Comas(out.l[i].s) = 0
          /\ out.l[i].s # <<>> =>
                out.l[i].s[1] # " " /\ out.l[i].s[Len(out.l[i].s)] # " "
    /\ SinBlancos(Unir(out.l)) = SinBlancos(s)

\* the object that json.loads gave for the completion, when it gave a dict
Decodificado(api) ==
    IF api.raise \/ api.text.t = "none" THEN [ok |-> FALSE]
    ELSE LET loaded == JsonLoads(CleanText(api.text.toks)) IN
         IF loaded.ok /\ loaded.v.t = "dict" THEN loaded ELSE [ok |-> FALSE]

\* C17: the value of "Respuestas" is normalised so: a string gives the list
\* of its comma-separated pieces, each stripped; a list is kept; anything
\* else, None for a missing key included, gives the empty list.  For every
\* decoded completion generar_pregunta returns a question only if that list
\* has four entries, the question holds that list, and every other decoded
\* completion gives a dict with the "error" key.
C17_RespuestasNormalizadas ==
    /\ (fn.op = "normalizar" /\ fn.done) =>
          /\ fn.arg.t = "list" => fn.out = fn.arg
          /\ fn.arg.t \notin {"str", "list"} => fn.out = List(<<>>)
          /\ fn.arg.t = "str" => EsPartida(fn.arg.s, fn.out)
    /\ (fn.op = "generar" /\ fn.done /\ Decodificado(fn.arg).ok) =>
          LET r == DictGet(Decodificado(fn.arg).v.d, "Respuestas", None)
              n == IF r.t = "str"
                   THEN Comas(r.s) + 1
                   ELSE IF r.t = "list" THEN Len(r.l) ELSE 0
          IN  /\ ~fn.out.raised
              /\ fn.out.val.t = "dict"
              /\ "error" \notin DOMAIN fn.out.val.d =>
                    /\ n = 4
                    /\ Len(fn.out.val.d.respuestas.l) = 4
                    /\ r.t = "list" => fn.out.val.d.respuestas = r
                    /\ r.t = "str" => EsPartida(r.s, fn.out.val.d.respuestas)
              /\ n # 4 => "error" \in DOMAIN fn.out.val.d

\* a question whose options came as one comma-joined string with blanks
C17_Witness ==
    /\ fn.op = "generar" /\ fn.done /\ Decodificado(fn.arg).ok
    /\ DictGet(Decodificado(fn.arg).v.d, "Respuestas", None) =
          Str(<<" ", "1", " ", ",", "2", " ", "b", ",", ",", " ", "4", " ">>)
    /\ "error" \notin DOMAIN fn.out.val.d
    /\ fn.out.val.d.respuestas =
          List(<<Str(<<"1">>), Str(<<"2", " ", "b">>), Str(<<>>), Str(<<"4">>)>>)

\* C19: generar_pregunta raises exactly when the API call raised, with that
\* exception; every value it returns is a dict that passes es_pregunta_valida
\* or has the "error" key, and a completion that could not be decoded to a
\* dict gives a dict with the "error" key.
C19_ValidOrMarked ==
    (fn.op = "generar" /\ fn.done) =>
        /\ fn.out.raised <=> fn.arg.raise
        /\ fn.out.raised => fn.out.msg = fn.arg.msg
        /\ ~fn.out.raised =>
              /\ fn.out.val.t = "dict"
              /\ es_pregunta_valida(fn.out.val) \/ "error" \in DOMAIN fn.out.val.d
              /\ ~Decodificado(fn.arg).ok => "error" \in DOMAIN fn.out.val.d

\* a decoded completion without its "Codigo" came back as an error dict
C19_Witness ==
    /\ fn.op = "generar" /\ fn.done /\ Decodificado(fn.arg).ok
    /\ "Codigo" \notin DOMAIN Decodificado(fn.arg).v.d
    /\ ~fn.out.raised /\ "error" \in DOMAIN fn.out.val.d

\* ------------------------------------------------------------------------
\* Properties of the routes
\* ------------------------------------------------------------------------
\* C5: a question page is built from a record that passes es_pregunta_valida,
\* the session in the cookie holds such a record as pregunta_actual, the
\* redirect to /quiz comes with such a cookie, and every other outcome of a
\* request carries no record.
C5_NoBrokenRecord ==
    \A p \in Clients :
        /\ hresp[p].kind = "page" =>
              /\ es_pregunta_valida(hresp[p].pregunta)
              /\ jar[p] = set_session(get_session(jar[p]))
              /\ get_session(jar[p]).pregunta_actual = hresp[p].pregunta
        /\ jar[p].k = "signed" => es_pregunta_valida(jar[p].data.pregunta_actual)
        /\ hresp[p].kind = "redirect_quiz" => jar[p].k = "signed"
        /\ hresp[p].kind # "page" => hresp[p].pregunta = None

\* quiz_get rendered a question it obtained after an invalid first result
C5_Witness ==
    \E p \in Clients :
        /\ hresp[p].kind = "page" /\ hresp[p].obtains > 1
        /\ es_pregunta_valida(hresp[p].pregunta)

\* C6 as stated: a request makes at most MAX_INTENTOS calls of
\* obtener_pregunta_cache_async for a new question and answers with the error
\* redirect after the MAX_INTENTOS-th invalid result.
C6_Original ==
    \A p \in Clients :
        /\ hloc[p].loop = "new" => hloc[p].obtains <= MAX_INTENTOS
        /\ hresp[p].kind = "redirect_error" => hresp[p].obtains = MAX_INTENTOS

\* C6 amended: a request makes at most MAX_INTENTOS + 1 calls for a new
\* question (the first one and MAX_INTENTOS retries), a pause of RETRY_PAUSE
\* precedes each retry, and the error redirect follows the
\* (MAX_INTENTOS + 1)-th invalid result.
C6_RetryBound ==
    \A p \in Clients :
        /\ hloc[p].loop = "new" =>
              /\ hloc[p].obtains <= MAX_INTENTOS + 1
              /\ hloc[p].intentos <= MAX_INTENTOS
              /\ hpc[p] = "wait" => hloc[p].slept = RETRY_PAUSE * (hloc[p].obtains - 1)
              /\ hpc[p] = "pause" => hloc[p].slept = RETRY_PAUSE * (hloc[p].obtains - 1)
        /\ hresp[p].kind = "redirect_error" =>
              /\ hresp[p].loop = "new"
              /\ hresp[p].obtains = MAX_INTENTOS + 1
              /\ hresp[p].slept = RETRY_PAUSE * MAX_INTENTOS

\* a request ended in the error redirect
C6_Witness ==
    \E p \in Clients :
        /\ hresp[p].kind = "redirect_error"
        /\ hresp[p].obtains = MAX_INTENTOS + 1

\* C20: every session in the cookie has 0 <= puntaje <= total <
\* MAX_PREGUNTAS.  The quiz_post that ends with the redirect to /quiz saves
\* the session it received with total one higher and puntaje the same or one
\* higher, one higher exactly when the answer sent is not empty and equals
\* respuesta_correcta once both are stripped.  The quiz_post that ends with
\* the redirect to the result received a session with total MAX_PREGUNTAS - 1,
\* deletes the cookie and has not asked for another question; a quiz_post
\* that asks for a new question has a total below MAX_PREGUNTAS.
C20_SessionBounds ==
    /\ [](\A p \in Clients : jar[p].k = "signed" =>
             /\ jar[p].data.puntaje \in Nat /\ jar[p].data.total \in Nat
             /\ jar[p].data.puntaje <= jar[p].data.total
             /\ jar[p].data.total < MAX_PREGUNTAS)
    /\ [][\A p \in Clients :
            /\ (hpc[p] = "wait" /\ hresp'[p].kind = "redirect_quiz") =>
                  /\ jar[p].k = "signed" /\ jar'[p].k = "signed"
                  /\ jar'[p].data.total = jar[p].data.total + 1
                  /\ jar'[p].data.puntaje \in
                        {jar[p].data.puntaje, jar[p].data.puntaje + 1}
                  /\ jar'[p].data.puntaje = jar[p].data.puntaje + 1 <=>
                        /\ hloc[p].respuesta # <<>>
                        /\ Strip(hloc[p].respuesta) =
                              Strip(jar[p].data.pregunta_actual.d.respuesta_correcta.s)
            /\ (reqs' = reqs + 1 /\ hresp'[p].kind = "redirect_resultado") =>
                  /\ jar[p].k = "signed"
                  /\ jar[p].data.total = MAX_PREGUNTAS - 1
                  /\ jar'[p] = NoCookie
                  /\ hpc'[p] = "idle" /\ opc'[p] = "idle"
                  /\ hresp'[p].obtains = 0
            /\ (hpc'[p] = "wait" /\ hloc'[p].route = "post"
                    /\ hloc'[p].loop = "new") =>
                  hloc'[p].session.total < MAX_PREGUNTAS]_vars

\* the ninth answer was scored and a question taken from the cache for the
\* tenth, the tenth answer ended the quiz: redirect to the result, no cookie
C20_Witness ==
    \E p \in Clients :
        /\ hresp[p].kind = "redirect_resultado" /\ jar[p] = NoCookie
        /\ delivered # EmptyBag

\* C21: the quiz_post that ends with the error redirect after its calls for
\* a new question were used up leaves the cookie as it was: the session in it
\* still has the total and the puntaje from before the answer (the handler's
\* own session had total one higher) and the question the answer was for.
C21_ExhaustedKeepsSession ==
    [][\A p \in Clients :
          (hpc[p] = "wait" /\ hloc[p].route = "post" /\ hloc[p].loop = "new"
              /\ hresp'[p].kind = "redirect_error") =>
                /\ jar'[p] = jar[p]
                /\ jar[p].k = "signed"
                /\ hloc[p].session.total = jar'[p].data.total + 1
                /\ hloc[p].session.puntaje \in
                      {jar'[p].data.puntaje, jar'[p].data.puntaje + 1}
                /\ jar'[p].data.pregunta_actual = hloc[p].session.pregunta_actual
                /\ hloc[p].nueva # jar'[p].data.pregunta_actual
                /\ hresp'[p].obtains = MAX_INTENTOS + 1]_vars

\* a quiz_post scored its answer, ended in the error redirect, and the cookie
\* still holds the session of the quiz's start
C21_Witness ==
    \E p \in Clients :
        /\ hresp[p].kind = "redirect_error" /\ hresp[p].route = "post"
        /\ hresp[p].loop = "new"
        /\ jar[p] = set_session(SesionNueva(PreguntaInicial))

\* C8: no call of obtener_pregunta_cache_async ends by raising and no request
\* ends with an exception that the handler did not catch.
C8_NoEscape ==
    \A p \in Clients : opc[p] # "raised" /\ hresp[p].kind # "exception"

=============================================================================
